---- MODULE Spec2Model ----
(***************************************************************************)
(* Model of DATA/pipeline_data/fonctions_utiles.py/clean.py: the tabular   *)
(* cleaning pipeline (initial_cleaning, compute_missing_rates,             *)
(* impute_column, handle_missing_values and the module-level driver).      *)
(*                                                                         *)
(* A DataFrame is a record                                                 *)
(*   [columns |-> <<label>>, dtype |-> <<"object"|"int64"|"float64">>,     *)
(*    data |-> <<column cells>>, n |-> row count]                          *)
(* stored column-major.  A cell or a label is a tagged value:              *)
(*   [t |-> "nan"]                    a missing cell (None / NaN)          *)
(*   [t |-> "float", n |-> p, d |-> q]  the number p/q in lowest terms     *)
(*   [t |-> "str", s |-> <<chars>>]     a Python str, char by char         *)
(*   [t |-> "int", i |-> k]             an integer column label            *)
(* Numbers are exact fractions: the model leaves floating-point rounding   *)
(* out.                                                                    *)
(***************************************************************************)
EXTENDS Integers, Sequences, FiniteSets, TLC

VARIABLES pc, data, df_clean, df_again, args, missing_rates,
          df_imputed, imputation_info, raised, printed

vars == <<pc, data, df_clean, df_again, args, missing_rates,
          df_imputed, imputation_info, raised, printed>>

\* Largest number of rows of an input table.
MaxRows == 3

---------------------------------------------------------------------------
(* Values *)

NaN == [t |-> "nan"]

RECURSIVE Gcd(_, _)
Gcd(a, b) == IF b = 0 THEN a ELSE Gcd(b, a % b)

Reduced(p, q, g) == [t |-> "float", n |-> p \div g, d |-> q \div g]

\* the float p/q (p >= 0, q > 0), in lowest terms
Float(p, q) == Reduced(p, q, Gcd(p, q))

Str(s) == [t |-> "str", s |-> s]

IntLabel(k) == [t |-> "int", i |-> k]

\* pandas isna() on one cell
IsNa(c) == c.t = "nan"

\* the absent value (no table, no report, no exception)
None == [t |-> "none"]

---------------------------------------------------------------------------
(* Python str methods, on sequences of one-character strings *)

IsSpace(ch) == ch = " "

IsDigit(ch) == ch \in {"0", "1", "2", "3", "4", "5", "6", "7", "8", "9"}

DigitVal(ch) ==
  CASE ch = "0" -> 0 [] ch = "1" -> 1 [] ch = "2" -> 2 [] ch = "3" -> 3
    [] ch = "4" -> 4 [] ch = "5" -> 5 [] ch = "6" -> 6 [] ch = "7" -> 7
    [] ch = "8" -> 8 [] ch = "9" -> 9

DigitChar(k) ==
  CASE k = 0 -> "0" [] k = 1 -> "1" [] k = 2 -> "2" [] k = 3 -> "3"
    [] k = 4 -> "4" [] k = 5 -> "5" [] k = 6 -> "6" [] k = 7 -> "7"
    [] k = 8 -> "8" [] k = 9 -> "9"

\* code points of the characters the model uses (the order str compares by)
Ord(ch) ==
  CASE ch = " " -> 32 [] ch = "," -> 44 [] IsDigit(ch) -> 48 + DigitVal(ch)
    [] ch = "A" -> 65 [] ch = "B" -> 66 [] ch = "_" -> 95
    [] ch = "a" -> 97 [] ch = "b" -> 98 [] ch = "x" -> 120 [] ch = "y" -> 121
    [] OTHER -> 200

\* the positions of s that hold no whitespace
NonSpace(s) == {i \in 1..Len(s) : ~IsSpace(s[i])}

SetMin(S) == CHOOSE i \in S : \A j \in S : i <= j

SetMax(S) == CHOOSE i \in S : \A j \in S : i >= j

\* s.strip()
StrStrip(s) ==
  IF NonSpace(s) = {} THEN <<>>
  ELSE SubSeq(s, SetMin(NonSpace(s)), SetMax(NonSpace(s)))

LowerChar(ch) == IF ch = "A" THEN "a" ELSE IF ch = "B" THEN "b" ELSE ch

\* s.lower()
StrLower(s) == [i \in 1..Len(s) |-> LowerChar(s[i])]

\* s.replace(old, new) for a one-character old; new is a string
RECURSIVE StrReplace(_, _, _)
StrReplace(s, old, new) ==
  IF Len(s) = 0 THEN <<>>
  ELSE (IF Head(s) = old THEN new ELSE <<Head(s)>>) \o StrReplace(Tail(s), old, new)

\* str(k) for a small non-negative integer
DecStr(k) == IF k < 10 THEN <<DigitChar(k)>>
             ELSE <<DigitChar(k \div 10), DigitChar(k % 10)>>

\* str(c) for a column label
PyStr(c) == IF c.t = "str" THEN c.s ELSE DecStr(c.i)

\* the value of a string of decimal digits
RECURSIVE DecVal(_)
DecVal(s) ==
  IF Len(s) = 0 THEN 0
  ELSE 10 * DecVal(SubSeq(s, 1, Len(s) - 1)) + DigitVal(s[Len(s)])

\* s1 < s2 as Python compares str
StrLess(s1, s2) ==
  \E k \in 1..(Len(s1) + 1) :
     /\ k <= Len(s2)
     /\ \A j \in 1..(k - 1) : s1[j] = s2[j]
     /\ (k = Len(s1) + 1 \/ Ord(s1[k]) < Ord(s2[k]))

---------------------------------------------------------------------------
(* DataFrame helpers *)

NCols(df) == Len(df.columns)

\* the elements of the first i positions of s that are in K, in order
RECURSIVE KeepUpTo(_, _, _)
KeepUpTo(s, K, i) ==
  IF i = 0 THEN <<>>
  ELSE IF i \in K THEN Append(KeepUpTo(s, K, i - 1), s[i])
  ELSE KeepUpTo(s, K, i - 1)

\* the elements of s at the positions in K, in order
KeepIdx(s, K) == KeepUpTo(s, K, Len(s))

\* df.drop(columns=...) keeping the columns at positions K
KeepCols(df, K) ==
  [columns |-> KeepIdx(df.columns, K), dtype |-> KeepIdx(df.dtype, K),
   data |-> KeepIdx(df.data, K), n |-> df.n]

\* series.isna().sum()
NMissing(col) == Cardinality({i \in 1..Len(col) : IsNa(col[i])})

\* series.isna().all()  (True on an empty series)
AllNa(col) == \A i \in 1..Len(col) : IsNa(col[i])

\* row i of the table
Row(df, i) == [c \in 1..NCols(df) |-> df.data[c][i]]

\* the rows that repeat no earlier row
FirstOccurrences(df) ==
  {i \in 1..df.n : \A j \in 1..(i - 1) : Row(df, j) # Row(df, i)}

\* df.drop_duplicates().reset_index(drop=True): an empty frame (no column or
\* no row) is returned as is; otherwise the first occurrence of each row stays
DropDuplicates(df) ==
  IF NCols(df) = 0 \/ df.n = 0 THEN df
  ELSE [columns |-> df.columns, dtype |-> df.dtype,
        data |-> [c \in 1..NCols(df) |-> KeepIdx(df.data[c], FirstOccurrences(df))],
        n |-> Cardinality(FirstOccurrences(df))]

---------------------------------------------------------------------------
(* initial_cleaning, clean.py lines 14-46 *)

\* line 26: str(c).strip().lower().replace(" ", "_")
NormalizeName(c) ==
  StrReplace(StrLower(StrStrip(PyStr(c))), " ", <<"_">>)

\* line 26: df.columns = [...]
RenameColumns(df) ==
  [df EXCEPT !.columns = [i \in 1..NCols(df) |-> Str(NormalizeName(df.columns[i]))]]

\* two columns carry the same label
HasDuplicateLabels(df) ==
  \E i, j \in 1..NCols(df) : i < j /\ df.columns[i] = df.columns[j]

\* mutant of AllNaScanRaises: a repeated label goes unnoticed
AllNaScanSilent(df) == FALSE

\* line 29: with a repeated label c, df[c] is a DataFrame, df[c].isna().all()
\* a Series of two or more booleans, and its truth value in the comprehension's
\* `if` raises ValueError
AllNaScanRaises(df) == HasDuplicateLabels(df)

\* mutant of DropAllNaColumns: the all-missing columns stay
DropAllNaColumnsSkipped(df) == df

\* lines 29-31: drop the columns whose cells are all missing
DropAllNaColumns(df) ==
  KeepCols(df, {i \in 1..NCols(df) : ~AllNa(df.data[i])})

\* pd.to_numeric(s, errors="coerce") of a stripped string: its value when it
\* is a string of digits, NaN otherwise
ParseNumber(s) ==
  IF Len(s) > 0 /\ \A i \in 1..Len(s) : IsDigit(s[i])
  THEN Float(DecVal(s), 1) ELSE NaN

\* line 37 on one cell: pd.to_numeric(s.replace(",", "").strip(), errors="coerce");
\* a missing cell stays missing, a string that is not a number becomes NaN
ToNumeric(c) ==
  IF c.t # "str" THEN NaN
  ELSE ParseNumber(StrStrip(StrReplace(c.s, ",", <<>>)))

\* line 37: the converted series
Converted(col) == [i \in 1..Len(col) |-> ToNumeric(col[i])]

\* mutant of ConversionAccepted: the ratio must exceed one half
ConversionAcceptedStrict(col) ==
  Len(col) > 0 /\ 2 * (Len(col) - NMissing(Converted(col))) > Len(col)

\* lines 39-40: converted.notna().mean() >= 0.5; the mean of an empty series is
\* NaN, and NaN >= 0.5 is False
ConversionAccepted(col) ==
  Len(col) > 0 /\ 2 * (Len(col) - NMissing(Converted(col))) >= Len(col)

\* the dtype pd.to_numeric gives: int64 when nothing is missing, else float64
NumericDtype(col) == IF NMissing(col) = 0 THEN "int64" ELSE "float64"

\* lines 35-40: column i is an object column whose conversion is accepted
ColumnConverts(df, i) ==
  df.dtype[i] = "object" /\ ConversionAccepted(df.data[i])

\* lines 34-41: replace the object columns that look numeric
CoerceNumericColumns(df) ==
  [columns |-> df.columns,
   dtype |-> [i \in 1..NCols(df) |->
                IF ColumnConverts(df, i)
                THEN NumericDtype(Converted(df.data[i])) ELSE df.dtype[i]],
   data |-> [i \in 1..NCols(df) |->
                IF ColumnConverts(df, i) THEN Converted(df.data[i]) ELSE df.data[i]],
   n |-> df.n]

\* lines 28-46, on the table with its columns renamed
CleanRenamed(df) ==
  IF AllNaScanRaises(df)
  THEN [raised |-> [t |-> "ValueError"], df |-> None]
  ELSE [raised |-> None,
        df |-> DropDuplicates(CoerceNumericColumns(DropAllNaColumns(df)))]

\* initial_cleaning(df): the table returned, or the exception raised
initial_cleaning(df) == CleanRenamed(RenameColumns(df))

---------------------------------------------------------------------------
(* Float arithmetic and comparisons; every comparison with NaN is False *)

FloatLe(x, y) == x.t = "float" /\ y.t = "float" /\ x.n * y.d <= y.n * x.d

FloatGt(x, y) == x.t = "float" /\ y.t = "float" /\ x.n * y.d > y.n * x.d

FloatIsZero(x) == x.t = "float" /\ x.n = 0

FloatAdd(x, y) == Float(x.n * y.d + y.n * x.d, x.d * y.d)

\* x / k for an integer k > 0
FloatDiv(x, k) == Float(x.n, x.d * k)

---------------------------------------------------------------------------
(* compute_missing_rates, clean.py lines 48-51 *)

\* the position of the column labelled c
ColIdx(df, c) == CHOOSE i \in 1..NCols(df) : df.columns[i] = c

Labels(df) == {df.columns[i] : i \in 1..NCols(df)}

\* series.isna().mean(): the mean of an empty series is NaN
IsnaMean(col) ==
  IF Len(col) = 0 THEN NaN ELSE Float(NMissing(col), Len(col))

\* line 51
compute_missing_rates(df) ==
  [c \in Labels(df) |-> IsnaMean(df.data[ColIdx(df, c)])]

---------------------------------------------------------------------------
(* impute_column, clean.py lines 53-88 *)

\* the positions of the non-missing cells
NotNaIdx(col) == {i \in 1..Len(col) : ~IsNa(col[i])}

\* how many non-missing cells are below x
CountBelow(col, x) == Cardinality({j \in NotNaIdx(col) : ~FloatLe(x, col[j])})

\* how many non-missing cells are x or less
CountUpTo(col, x) == Cardinality({j \in NotNaIdx(col) : FloatLe(col[j], x)})

\* the k-th smallest of the non-missing values of a numeric series
KthSmallest(col, k) ==
  col[CHOOSE j \in NotNaIdx(col) :
        CountBelow(col, col[j]) < k /\ k <= CountUpTo(col, col[j])]

\* the median of k > 0 non-missing values
MedianOf(col, k) ==
  IF k % 2 = 1 THEN KthSmallest(col, (k + 1) \div 2)
  ELSE FloatDiv(FloatAdd(KthSmallest(col, k \div 2),
                         KthSmallest(col, k \div 2 + 1)), 2)

\* line 65: s.median() skips the missing cells; NaN when nothing is left
SeriesMedian(col) ==
  IF NotNaIdx(col) = {} THEN NaN ELSE MedianOf(col, Cardinality(NotNaIdx(col)))

\* the sum of the non-missing cells among the first i
RECURSIVE SumUpTo(_, _)
SumUpTo(col, i) ==
  IF i = 0 THEN Float(0, 1)
  ELSE IF IsNa(col[i]) THEN SumUpTo(col, i - 1)
  ELSE FloatAdd(SumUpTo(col, i - 1), col[i])

\* line 67: s.mean() skips the missing cells; NaN when nothing is left
SeriesMean(col) ==
  IF NotNaIdx(col) = {} THEN NaN
  ELSE FloatDiv(SumUpTo(col, Len(col)), Cardinality(NotNaIdx(col)))

\* the non-missing values of a series
Values(col) == {col[i] : i \in NotNaIdx(col)}

\* how often v occurs
ValueCount(col, v) == Cardinality({i \in 1..Len(col) : col[i] = v})

\* the most frequent values
ModeTop(col) ==
  {v \in Values(col) : \A w \in Values(col) : ValueCount(col, w) <= ValueCount(col, v)}

\* line 80: s.mode().iloc[0]: the most frequent non-missing value, the least
\* one in sorted order when several tie
SeriesMode(col) ==
  CHOOSE v \in ModeTop(col) : \A w \in ModeTop(col) : w = v \/ StrLess(v.s, w.s)

\* series.fillna(fill): fillna(NaN) fills nothing
FillNa(col, fill) ==
  [i \in 1..Len(col) |-> IF IsNa(col[i]) THEN fill ELSE col[i]]

\* str(x) of a cell of an object column
PyStrCell(c) == IF c.t = "str" THEN c ELSE Str(<<"n", "a", "n">>)

\* line 85: .astype(str)
AsTypeStr(col) == [i \in 1..Len(col) |-> PyStrCell(col[i])]

\* pd.api.types.is_numeric_dtype
is_numeric_dtype(dtype) == dtype # "object"

MissingLiteral == Str(<<"m", "i", "s", "s", "i", "n", "g">>)

NumericStrategies == {"median", "mean", "constant"}

CategoricalStrategies == {"mode", "constant"}

\* lines 64-71: the numeric fill value
NumericFill(col, strategy) ==
  CASE strategy = "median" -> SeriesMedian(col)
    [] strategy = "mean" -> SeriesMean(col)
    [] strategy = "constant" -> Float(0, 1)

\* lines 76-84: the categorical fill value
CategoricalFill(col, strategy) ==
  CASE strategy = "mode" -> IF AllNa(col) THEN MissingLiteral ELSE SeriesMode(col)
    [] strategy = "constant" -> MissingLiteral

\* lines 60, 73, 86, 88: the imputed series s with its info
ImputedSeries(col, dtype, strategy, fill, s) ==
  [raised |-> None, s |-> s,
   info |-> [dtype |-> dtype, strategy |-> strategy,
             n_missing_before |-> NMissing(col),
             fill_value |-> fill,
             n_missing_after |-> NMissing(s)]]

\* lines 72-73: s.fillna(fill), fill_value = float(fill); float() keeps the
\* value, every number of the model being a float already
ImputedNumeric(col, dtype, strategy, fill) ==
  ImputedSeries(col, dtype, strategy, fill, FillNa(col, fill))

\* lines 85-86: s.fillna(fill).astype(str), fill_value = str(fill)
ImputedCategorical(col, dtype, strategy, fill) ==
  ImputedSeries(col, dtype, strategy, PyStrCell(fill), AsTypeStr(FillNa(col, fill)))

\* mutant of impute_column: an unknown strategy name falls back to the constant
\* fill instead of raising
impute_column_fallback(col, dtype, strategy) ==
  IF is_numeric_dtype(dtype)
  THEN ImputedNumeric(col, dtype, strategy,
                      IF strategy \in NumericStrategies
                      THEN NumericFill(col, strategy) ELSE Float(0, 1))
  ELSE ImputedCategorical(col, dtype, strategy,
                      IF strategy \in CategoricalStrategies
                      THEN CategoricalFill(col, strategy) ELSE MissingLiteral)

\* impute_column(series, strategy): the imputed series and its info, or the
\* ValueError raised for an unknown strategy
impute_column(col, dtype, strategy) ==
  IF is_numeric_dtype(dtype)
  THEN IF strategy \notin NumericStrategies
       THEN [raised |-> [t |-> "ValueError"], s |-> None, info |-> None]
       ELSE ImputedNumeric(col, dtype, strategy, NumericFill(col, strategy))
  ELSE IF strategy \notin CategoricalStrategies
       THEN [raised |-> [t |-> "ValueError"], s |-> None, info |-> None]
       ELSE ImputedCategorical(col, dtype, strategy, CategoricalFill(col, strategy))

---------------------------------------------------------------------------
(* handle_missing_values, clean.py lines 90-142 *)

\* a Python dict with keys that are not all strings
Dict(f) == [t |-> "dict", items |-> f]

\* d[k] = v
DictSet(d, k, v) == [x \in (DOMAIN d) \cup {k} |-> IF x = k THEN v ELSE d[x]]

\* d.update(e)
DictUpdate(d, e) ==
  [x \in (DOMAIN d) \cup (DOMAIN e) |-> IF x \in DOMAIN e THEN e[x] ELSE d[x]]

\* mutant of ExceedsThreshold: p >= threshold
ExceedsThresholdNonStrict(rate, threshold) == FloatLe(threshold, rate)

\* line 106: p > threshold
ExceedsThreshold(rate, threshold) == FloatGt(rate, threshold)

\* line 106: cols_exceed
ColsExceed(rates, threshold) ==
  {c \in DOMAIN rates : ExceedsThreshold(rates[c], threshold)}

\* lines 122-125: the strategy for the column's type
StrategyFor(dtype, a) ==
  IF is_numeric_dtype(dtype) THEN a.numeric_strategy ELSE a.categorical_strategy

\* lines 123-127: the outcome r of impute_column, stored for column i
StoreImputed(st, i, r) ==
  IF r.raised # None
  THEN [st EXCEPT !.raised = r.raised]
  ELSE [df |-> [st.df EXCEPT !.data[i] = r.s],
        info |-> DictSet(st.info, st.df.columns[i], r.info),
        raised |-> None]

\* lines 113-130: one turn of the loop, for the column at position i
ImputeStep(st, i, rates, a) ==
  IF st.raised # None THEN st
  ELSE IF FloatIsZero(rates[st.df.columns[i]])
  THEN [st EXCEPT !.info = DictSet(@, st.df.columns[i],
           [n_missing_before |-> 0, n_missing_after |-> 0, strategy |-> "none"])]
  ELSE IF FloatLe(rates[st.df.columns[i]], a.threshold)
  THEN StoreImputed(st, i,
         impute_column(st.df.data[i], st.df.dtype[i], StrategyFor(st.df.dtype[i], a)))
  ELSE [st EXCEPT !.info = DictSet(@, st.df.columns[i],
           [n_missing_before |-> NMissing(st.df.data[i]), note |-> "exceeds_threshold"])]

\* the loop after its first i turns
RECURSIVE ImputeUpTo(_, _, _, _)
ImputeUpTo(df, rates, a, i) ==
  IF i = 0 THEN [df |-> df, info |-> <<>>, raised |-> None]
  ELSE ImputeStep(ImputeUpTo(df, rates, a, i - 1), i, rates, a)

\* lines 112-130: the loop over missing_rates.items(), in column order
ImputeLoop(df, rates, a) == ImputeUpTo(df, rates, a, NCols(df))

\* series.nunique(dropna=True)
NUnique(col) == Cardinality(Values(col))

\* line 134: constant_cols, as column positions
ConstantCols(df) == {i \in 1..NCols(df) : NUnique(df.data[i]) <= 1}

ConstantNames(df) == {df.columns[i] : i \in ConstantCols(df)}

\* lines 139-140: info[c] = info.get(c, {}); info[c].update({"dropped_constant": True})
FlagDropped(info, names) ==
  [c \in (DOMAIN info) \cup names |->
     IF c \in names
     THEN DictUpdate(IF c \in DOMAIN info THEN info[c] ELSE <<>>,
                     [dropped_constant |-> TRUE])
     ELSE info[c]]

\* the flag put in place of the entry
ReplaceDropped(info, names) ==
  [c \in (DOMAIN info) \cup names |->
     IF c \in names THEN [dropped_constant |-> TRUE] ELSE info[c]]

\* mutant of DropConstant: the flag replaces the report entry of a dropped column
DropConstantReplacing(st, allow_drop_constant) ==
  IF ~allow_drop_constant THEN st
  ELSE [df |-> KeepCols(st.df, (1..NCols(st.df)) \ ConstantCols(st.df)),
        info |-> ReplaceDropped(st.info, ConstantNames(st.df)),
        raised |-> None]

\* lines 133-140: drop the constant columns and flag them in the report
DropConstant(st, allow_drop_constant) ==
  IF ~allow_drop_constant THEN st
  ELSE [df |-> KeepCols(st.df, (1..NCols(st.df)) \ ConstantCols(st.df)),
        info |-> FlagDropped(st.info, ConstantNames(st.df)),
        raised |-> None]

\* line 142: return df, imputation_info
ReturnValue(fin, rates) ==
  [raised |-> None, df |-> fin.df, info |-> Dict(fin.info), rates |-> rates]

\* lines 132-142, after the loop ended in st
AfterLoop(st, a, rates) ==
  IF st.raised # None
  THEN [raised |-> st.raised, df |-> None, info |-> None, rates |-> rates]
  ELSE ReturnValue(DropConstant(st, a.allow_drop_constant), rates)

\* lines 106-142, with the rates of line 105
GateAndImpute(df, a, rates) ==
  IF ColsExceed(rates, a.threshold) # {}
  THEN [raised |-> [t |-> "TooManyMissingError",
                    cols_too_many |-> [c \in ColsExceed(rates, a.threshold) |-> rates[c]]],
        df |-> None, info |-> None, rates |-> rates]
  ELSE AfterLoop(ImputeLoop(df, rates, a), a, rates)

\* handle_missing_values(df, threshold, numeric_strategy, categorical_strategy,
\* allow_drop_constant): what it returns or raises.  It works on a copy
\* (line 103), so the caller's table is never written.
handle_missing_values(df, a) == GateAndImpute(df, a, compute_missing_rates(df))

---------------------------------------------------------------------------
(* Input tables *)

\* every sequence of k cells over the set cells
Cols(cells, k) == [1..k -> cells]

\* the column data of the tables with k rows whose column i draws its cells
\* from cellsets[i]
ColumnData(cellsets, k) ==
  {d \in [1..Len(cellsets) -> UNION {Cols(cellsets[i], k) : i \in 1..Len(cellsets)}] :
     \A i \in 1..Len(cellsets) : d[i] \in Cols(cellsets[i], k)}

\* the tables with the given labels and dtypes, k rows, and cells drawn per
\* column from cellsets
TablesOf(labels, dtypes, cellsets, k) ==
  {[columns |-> labels, dtype |-> dtypes, data |-> d, n |-> k] :
     d \in ColumnData(cellsets, k)}

TextA == Str(<<"a">>)
TextOne == Str(<<"1">>)
TextOneComma == Str(<<"1", ",">>)
TextX == Str(<<"x">>)
TextY == Str(<<"y">>)

\* labels as a caller may give them (pairwise distinct within a table)
RawLabels == {Str(<<" ", "A">>), Str(<<"a">>), Str(<<"a", " ", "b">>)}

\* the cells of a text column before cleaning
RawTextCells == {NaN, TextOne, TextOneComma, TextA}

\* the cells of a float column
FloatCells == {NaN, Float(1, 1), Float(2, 1)}

\* tables handed to initial_cleaning: a text column, alone or followed by a
\* float column
CleanInputs ==
  UNION {
    UNION {TablesOf(<<l>>, <<"object">>, <<RawTextCells>>, k) : l \in RawLabels}
    \cup
    UNION {TablesOf(q, <<"object", "float64">>,
                    <<RawTextCells, {NaN, Float(1, 1)}>>, k) :
             q \in {x \in RawLabels \X RawLabels : x[1] # x[2]}}
    : k \in 0..MaxRows}

\* tables handed to handle_missing_values: a float column and a text column
ImputeInputs ==
  UNION {TablesOf(<<TextA, Str(<<"b">>)>>, <<"float64", "object">>,
                  <<FloatCells, {NaN, TextX, TextY}>>, k) : k \in 0..MaxRows}

\* tables as pd.read_csv(header=None) loads them (line 145): integer labels,
\* at least one row
LoadedInputs ==
  UNION {TablesOf(<<IntLabel(0), IntLabel(1)>>, <<"object", "float64">>,
                  <<RawTextCells, {NaN, Float(1, 1)}>>, k) : k \in 1..MaxRows}

Thresholds == {Float(1, 3), Float(1, 1)}

\* the arguments of a call of handle_missing_values
ArgSets ==
  [threshold : Thresholds,
   numeric_strategy : NumericStrategies \cup {"knn"},
   categorical_strategy : CategoricalStrategies \cup {"knn"},
   allow_drop_constant : BOOLEAN]

\* lines 155-159: the arguments the driver passes
DriverArgs ==
  [threshold |-> Float(7, 100), numeric_strategy |-> "median",
   categorical_strategy |-> "mode", allow_drop_constant |-> TRUE]

---------------------------------------------------------------------------
(* Operations *)

\* lines 149-150: df_clean = initial_cleaning(data)
Clean ==
  /\ pc = "loaded"
  /\ df_clean' = initial_cleaning(data).df
  /\ raised' = initial_cleaning(data).raised
  /\ pc' = IF initial_cleaning(data).raised = None THEN "cleaned" ELSE "terminated"
  /\ UNCHANGED <<data, df_again, args, missing_rates, df_imputed,
                 imputation_info, printed>>

\* initial_cleaning applied to its own output
CleanAgain ==
  /\ pc = "cleaned"
  /\ df_again' = initial_cleaning(df_clean).df
  /\ raised' = initial_cleaning(df_clean).raised
  /\ pc' = IF initial_cleaning(df_clean).raised = None THEN "recleaned" ELSE "terminated"
  /\ UNCHANGED <<data, df_clean, args, missing_rates, df_imputed,
                 imputation_info, printed>>

\* lines 161-171: what the try statement does with the outcome r of the call
TryOutcome(r) ==
  /\ missing_rates' = r.rates
  /\ raised' = r.raised
  /\ df_imputed' = r.df
  /\ imputation_info' = r.info
  /\ printed' = CASE r.raised = None -> "report"
                  [] r.raised.t = "TooManyMissingError" -> "diagnostic"
                  [] OTHER -> "traceback"
  /\ pc' = IF r.raised = None \/ r.raised.t = "TooManyMissingError"
           THEN "done" ELSE "terminated"

\* lines 153-171: the try statement around handle_missing_values(df_clean, ...).
\* On success the report is printed; TooManyMissingError is caught and the
\* diagnostic printed; any other exception leaves the try and ends the run.
TryHandleMissingValues(a) ==
  /\ pc = "cleaned"
  /\ args' = a
  /\ TryOutcome(handle_missing_values(df_clean, a))
  /\ UNCHANGED <<data, df_clean, df_again>>

InitCommon ==
  /\ df_again = None
  /\ args = None
  /\ missing_rates = None
  /\ df_imputed = None
  /\ imputation_info = None
  /\ raised = None
  /\ printed = "nothing"

\* The driver: load (line 145), clean (149), impute (153-171)
Init ==
  /\ pc = "loaded"
  /\ data \in LoadedInputs
  /\ df_clean = None
  /\ InitCommon

Next == Clean \/ TryHandleMissingValues(DriverArgs)

Spec == Init /\ [][Next]_vars

\* initial_cleaning on any table, then on its own output
InitClean ==
  /\ pc = "loaded"
  /\ data \in CleanInputs
  /\ df_clean = None
  /\ InitCommon

NextClean == Clean \/ CleanAgain

SpecClean == InitClean /\ [][NextClean]_vars

\* handle_missing_values on any table with any arguments
InitImpute ==
  /\ pc = "cleaned"
  /\ df_clean \in ImputeInputs
  /\ data = df_clean
  /\ InitCommon

NextImpute == \E a \in ArgSets : TryHandleMissingValues(a)

SpecImpute == InitImpute /\ [][NextImpute]_vars

---------------------------------------------------------------------------
(* Properties of handle_missing_values, under SpecImpute *)

Returned == pc = "done" /\ raised = None

Rejected == pc = "done" /\ raised # None /\ raised.t = "TooManyMissingError"

\* the column labelled c of the table handed to handle_missing_values
InCol(c) == df_clean.data[ColIdx(df_clean, c)]

InDtype(c) == df_clean.dtype[ColIdx(df_clean, c)]

\* m / n > threshold, by cross-multiplication (no column of an empty table has
\* a missing rate above anything)
RateAbove(c, threshold) ==
  df_clean.n > 0 /\ NMissing(InCol(c)) * threshold.d > threshold.n * df_clean.n

\* 0 < m / n <= threshold
RateWithin(c, threshold) ==
  /\ df_clean.n > 0
  /\ NMissing(InCol(c)) > 0
  /\ NMissing(InCol(c)) * threshold.d <= threshold.n * df_clean.n

Entry(c) == imputation_info.items[c]

\* C1: handle_missing_values fails with TooManyMissingError if and only if at
\* least one column's missing rate is strictly greater than threshold; the
\* error's cols_too_many then maps exactly the columns whose rate is > threshold
\* to their rates, no table and no report is returned, and the caller's table
\* is what it was before the call.
C1_RejectionGate ==
  pc # "cleaned" =>
    LET over == {c \in Labels(df_clean) : RateAbove(c, args.threshold)}
    IN /\ Rejected <=> over # {}
       /\ Rejected =>
            /\ DOMAIN raised.cols_too_many = over
            /\ \A c \in over :
                 raised.cols_too_many[c] = Float(NMissing(InCol(c)), df_clean.n)
            /\ df_imputed = None
            /\ imputation_info = None
            /\ df_clean = data

\* a rejection that names one of the two columns and leaves the other out
C1_Witness ==
  /\ Rejected
  /\ NCols(df_clean) = 2
  /\ Cardinality(DOMAIN raised.cols_too_many) = 1
  /\ \E c \in Labels(df_clean) :
       NMissing(InCol(c)) > 0 /\ c \notin DOMAIN raised.cols_too_many

\* C2: after a successful call, every column whose missing rate at check time
\* was <= threshold has no missing cell in the returned table and
\* n_missing_after = 0 in its report entry, unless the column was dropped as
\* constant.
C2_NoMissingLeft ==
  Returned =>
    \A c \in Labels(df_clean) :
      (df_clean.n > 0 /\ ~RateAbove(c, args.threshold) /\ c \in Labels(df_imputed)) =>
         /\ NMissing(df_imputed.data[ColIdx(df_imputed, c)]) = 0
         /\ Entry(c)["n_missing_after"] = 0

\* the distinct non-missing values of column c once imputed, read from the
\* input column and the fill value the report records
ValuesAfterImputation(c) ==
  {InCol(c)[i] : i \in {j \in 1..df_clean.n : ~IsNa(InCol(c)[j])}}
  \cup (IF "fill_value" \in DOMAIN Entry(c) /\ Entry(c)["n_missing_before"] > 0
           /\ ~IsNa(Entry(c)["fill_value"])
        THEN {Entry(c)["fill_value"]} ELSE {})

GatePassed == pc # "cleaned" /\ \A c \in Labels(df_clean) : ~RateAbove(c, args.threshold)

\* the ValueError left the call and the driver's try statement uncaught
InvalidStrategyRaised ==
  /\ pc = "terminated"
  /\ raised # None /\ raised.t = "ValueError"
  /\ df_imputed = None
  /\ imputation_info = None

\* C4 as stated: an unknown strategy name for a type of which the table has a
\* column makes every call that passes the gate fail with ValueError.
C4_AsStated ==
  (/\ GatePassed
   /\ \/ /\ args.numeric_strategy \notin NumericStrategies
         /\ \E c \in Labels(df_clean) : is_numeric_dtype(InDtype(c))
      \/ /\ args.categorical_strategy \notin CategoricalStrategies
         /\ \E c \in Labels(df_clean) : ~is_numeric_dtype(InDtype(c)))
  => InvalidStrategyRaised

\* C4 (amended): an unknown strategy name for a type of which the table has a
\* column with at least one missing cell (0 < rate <= threshold) makes every
\* call that passes the gate fail with ValueError: no table, no report, and the
\* error is not caught by the driver.
C4_InvalidStrategy ==
  (/\ GatePassed
   /\ \/ /\ args.numeric_strategy \notin NumericStrategies
         /\ \E c \in Labels(df_clean) :
              is_numeric_dtype(InDtype(c)) /\ RateWithin(c, args.threshold)
      \/ /\ args.categorical_strategy \notin CategoricalStrategies
         /\ \E c \in Labels(df_clean) :
              ~is_numeric_dtype(InDtype(c)) /\ RateWithin(c, args.threshold))
  => InvalidStrategyRaised

\* an unknown categorical strategy met a text column with a missing cell
C4_Witness ==
  /\ InvalidStrategyRaised
  /\ printed = "traceback"
  /\ args.categorical_strategy \notin CategoricalStrategies
  /\ args.numeric_strategy \in NumericStrategies

\* C5: in a successful call, every missing cell of a column with
\* 0 < rate <= threshold is replaced by the fill value of the column's type and
\* strategy (median, mean or 0; mode or the literal "missing"), and the report
\* records that value as fill_value.
C5_FillValues ==
  Returned =>
    \A c \in Labels(df_clean) :
      RateWithin(c, args.threshold) =>
        LET fill == IF is_numeric_dtype(InDtype(c))
                    THEN NumericFill(InCol(c), args.numeric_strategy)
                    ELSE CategoricalFill(InCol(c), args.categorical_strategy)
        IN /\ Entry(c)["fill_value"] = fill
           /\ ~IsNa(Entry(c)["fill_value"])
           /\ c \in Labels(df_imputed) =>
                \A i \in 1..df_clean.n :
                   df_imputed.data[ColIdx(df_imputed, c)][i] =
                     (IF IsNa(InCol(c)[i]) THEN fill ELSE InCol(c)[i])

\* C7: compute_missing_rates returns for every column, of every table, also one
\* with no rows, a value in [0,1] equal to missing cells / row count, and
\* exactly 0.0 for a column with no missing cell.
C7_RatesInUnitInterval ==
  pc # "cleaned" =>
    \A c \in Labels(df_clean) :
      /\ missing_rates[c].t = "float"
      /\ FloatLe(Float(0, 1), missing_rates[c])
      /\ FloatLe(missing_rates[c], Float(1, 1))
      /\ df_clean.n > 0 =>
           missing_rates[c].n * df_clean.n = NMissing(InCol(c)) * missing_rates[c].d
      /\ NMissing(InCol(c)) = 0 => missing_rates[c] = Float(0, 1)

---------------------------------------------------------------------------
(* Properties of initial_cleaning, under SpecClean *)

Cleaned == pc \in {"cleaned", "recleaned"}

\* C6: initial_cleaning is idempotent: applied to its own output it returns the
\* same column names, the same column types and the same rows in the same
\* order.
C6_Idempotent == pc = "recleaned" => df_again = df_clean

\* C8: the column names of the table initial_cleaning returns are pairwise
\* distinct, each the original name trimmed, lowercased and with spaces
\* replaced by underscores.
C8_DistinctNames ==
  Cleaned =>
    /\ \A i, j \in 1..NCols(df_clean) :
         i # j => df_clean.columns[i] # df_clean.columns[j]
    /\ \A i \in 1..NCols(df_clean) :
         /\ \E k \in 1..NCols(data) :
              df_clean.columns[i] = Str(NormalizeName(data.columns[k]))
         /\ \A k \in 1..Len(df_clean.columns[i].s) :
              df_clean.columns[i].s[k] \notin {" ", "A", "B"}

\* two columns whose names needed trimming, lowercasing and an underscore came
\* back under their normalized names
C8_Witness ==
  /\ pc = "cleaned"
  /\ data.columns = <<Str(<<" ", "A">>), Str(<<"a", " ", "b">>)>>
  /\ df_clean.columns = <<Str(<<"a">>), Str(<<"a", "_", "b">>)>>

\* the cells of col that numeric coercion parses
NParsed(col) == Cardinality({i \in 1..Len(col) : ~IsNa(ToNumeric(col[i]))})

CellSet(col) == {col[i] : i \in 1..Len(col)}

\* the text columns of the input that initial_cleaning keeps
KeptTextColumns ==
  {k \in 1..NCols(data) : data.dtype[k] = "object" /\ ~AllNa(data.data[k])}

\* the column of the cleaned table that input column k became
CleanIdx(k) == ColIdx(df_clean, Str(NormalizeName(data.columns[k])))

\* C9 as stated: a text column is resolved as numeric exactly when numeric
\* coercion succeeds for at least half of its non-missing values.
C9_AsStated ==
  pc = "cleaned" =>
    \A k \in KeptTextColumns :
      is_numeric_dtype(df_clean.dtype[CleanIdx(k)])
        <=> 2 * NParsed(data.data[k]) >= Len(data.data[k]) - NMissing(data.data[k])

\* C9 (amended): a text column is resolved as numeric (replaced by its coerced
\* values, unparsable cells becoming missing) exactly when numeric coercion
\* yields a number for at least half of all its cells, the missing ones counted;
\* otherwise the column is kept as the original text column.
C9_NumericResolution ==
  pc = "cleaned" =>
    \A k \in KeptTextColumns :
      LET col == data.data[k]
          out == df_clean.data[CleanIdx(k)]
      IN IF 2 * NParsed(col) >= Len(col)
         THEN /\ is_numeric_dtype(df_clean.dtype[CleanIdx(k)])
              /\ CellSet(out) = {ToNumeric(col[i]) : i \in 1..Len(col)}
         ELSE /\ df_clean.dtype[CleanIdx(k)] = "object"
              /\ CellSet(out) = CellSet(col)

\* a text column of which exactly half the cells parse became numeric, its
\* unparsable cell missing
C9_Witness ==
  /\ pc = "cleaned"
  /\ \E k \in KeptTextColumns :
       /\ 2 * NParsed(data.data[k]) = Len(data.data[k])
       /\ TextA \in CellSet(data.data[k])
       /\ df_clean.dtype[CleanIdx(k)] = "float64"
       /\ NaN \in CellSet(df_clean.data[CleanIdx(k)])

---------------------------------------------------------------------------
(* Properties of the driver, under Spec *)

\* C10: the table handed to the missing-rate analysis never holds a column
\* whose cells are all missing: initial_cleaning drops every such input column,
\* and neither coercion nor duplicate removal makes a new one.  When
\* handle_missing_values rejects, the driver catches the TooManyMissingError,
\* prints the diagnostic and ends with no imputed table.
C10_NoAllMissingColumn ==
  /\ pc \in {"cleaned", "done", "terminated"} =>
       /\ \A i \in 1..NCols(df_clean) : ~AllNa(df_clean.data[i])
       /\ \A k \in 1..NCols(data) :
            AllNa(data.data[k]) =>
               Str(NormalizeName(data.columns[k])) \notin Labels(df_clean)
  /\ pc \in {"done", "terminated"} =>
       /\ \A c \in Labels(df_clean) : missing_rates[c] # Float(1, 1)
       /\ raised # None =>
            /\ raised.t = "TooManyMissingError"
            /\ pc = "done"
            /\ printed = "diagnostic"
            /\ df_imputed = None
            /\ imputation_info = None

\* an input with an entirely missing column was cleaned, then rejected for the
\* missing cells of the other column
C10_Witness ==
  /\ pc = "done"
  /\ raised # None
  /\ printed = "diagnostic"
  /\ \E k \in 1..NCols(data) : AllNa(data.data[k])
  /\ NCols(df_clean) = 1
  /\ df_clean.n > 1

====
